---- MODULE Spec2Model ----
(***************************************************************************)
(* Model of the embeddable HTTP/1.x server: the request codec              *)
(* (message.rs), the per-method routing tree (route.rs), the default error *)
(* translator (error.rs) and the per-connection loop (http_server.rs).     *)
(*                                                                         *)
(* Byte strings are sequences of lexemes: a lexeme is either a separator   *)
(* the codec splits on (SP, CRLF, COLON, SLASH) or a run of bytes the      *)
(* codec never looks into (a method name, a path segment, a body byte).    *)
(***************************************************************************)
EXTENDS Integers, Sequences, FiniteSets, TLC

VARIABLES active, serverPc, router, routes, lastAdd, pc, sock, peerOpen, elapsed, exch, exit,
          resp, inserted, wire, buffer, outcome,
          stream, data, sent, answers

vars == <<active, serverPc, router, routes, lastAdd, pc, sock, peerOpen, elapsed, exch, exit,
          resp, inserted, wire, buffer, outcome, stream, data, sent, answers>>

\* The server: HttpServer.active, where the main thread is, HttpServer.router,
\* and two records of the registrations made (the method and segments of
\* each, and the last one with its count).
server == <<active, serverPc, router, routes, lastAdd>>

\* The connections, per connection: where its worker is, the buffers sent and
\* not yet read, whether the peer still holds its end, the seconds since
\* last_request, the exchanges made, and why the worker left its loop.
conns == <<pc, sock, peerOpen, elapsed, exch, exit>>

\* The codec on its own: a Response under construction with the names of its
\* headers in the order of their first insertion, the bytes to_bytes made
\* of it, a buffer given to Request::from_bytes and what it returned.
codec == <<resp, inserted, wire, buffer, outcome>>

\* One connection byte by byte: the bytes the client has sent and the worker
\* has not read yet, the `data` vector of the worker's current turn, the
\* requests the client has sent, and what the worker has written.
delivery == <<stream, data, sent, answers>>

(***************************************************************************)
(* Bounds of the model.                                                    *)
(***************************************************************************)
MaxSends == 2       \* buffers a client puts on one connection
MaxRoutes == 2      \* registrations made before listen()
MaxPathLen == 4     \* lexemes in a route string given to Router::add / Router::get
MaxAdds == 2        \* registrations in the router-only specification
MaxNum == 30        \* largest number the decimal conversions are asked for
MaxHeaders == 3     \* headers of a Response under construction
MaxHeaderLines == 2 \* header lines of a buffer given to Request::from_bytes

\* http_server.rs:99, `last_request.elapsed().as_secs() > 4`
IdleSecs == 4

\* http_server.rs:16
BUFFER_SIZE == 2048

(***************************************************************************)
(* Lexemes.                                                                *)
(***************************************************************************)
SP == " "
CRLF == "CRLF"
COLON == ": "
SLASH == "/"
BADBYTE == "0xFF"       \* a byte that is not valid UTF-8

Min(a, b) == IF a < b THEN a ELSE b

\* The byte length of a lexeme: separators and literals by their text, every
\* other lexeme is a single byte.
ByteLen(t) ==
    CASE t = CRLF -> 2
      [] t = COLON -> 2
      [] t = "Not found" -> 9
      [] t = "Malformed request" -> 17
      [] t = "Internal server error" -> 21
      [] t = "Welcome to index" -> 16
      [] t = "yuor jason is " -> 14
      [] t = "PAD" -> BUFFER_SIZE - 22
      [] OTHER -> 1

RECURSIVE BytesLen(_)
BytesLen(s) == IF s = <<>> THEN 0 ELSE ByteLen(Head(s)) + BytesLen(Tail(s))

\* str::split(sep): the pieces between the occurrences of sep; a string
\* without sep (the empty one included) is one piece.
RECURSIVE Split(_, _)
Split(s, sep) ==
    IF \A i \in 1..Len(s) : s[i] # sep
    THEN <<s>>
    ELSE LET i == CHOOSE k \in 1..Len(s) : s[k] = sep /\ \A j \in 1..(k - 1) : s[j] # sep
         IN  <<SubSeq(s, 1, i - 1)>> \o Split(SubSeq(s, i + 1, Len(s)), sep)

\* str::trim_matches(c): drop every leading and every trailing c.
RECURSIVE TrimStart(_, _)
TrimStart(s, c) == IF s # <<>> /\ Head(s) = c THEN TrimStart(Tail(s), c) ELSE s

RECURSIVE TrimEnd(_, _)
TrimEnd(s, c) ==
    IF s # <<>> /\ s[Len(s)] = c THEN TrimEnd(SubSeq(s, 1, Len(s) - 1), c) ELSE s

TrimMatches(s, c) == TrimEnd(TrimStart(s, c), c)

\* str::to_ascii_lowercase on one lexeme.
LowerLexeme(t) ==
    CASE t = "Host" -> "host"
      [] t = "HOST" -> "host"
      [] t = "Content-Length" -> "content-length"
      [] t = "Connection" -> "connection"
      [] t = "HTTP" -> "http"
      [] t = "HTML" -> "html"
      [] t = "X" -> "x"
      [] t = "Broken" -> "broken"
      [] OTHER -> t

ToAsciiLowercase(s) == [i \in 1..Len(s) |-> LowerLexeme(s[i])]

\* str::to_ascii_uppercase on one lexeme (Response::to_bytes).
UpperLexeme(t) == IF t = "http" THEN "HTTP" ELSE t

\* usize::to_string.
UsizeToString(n) == ToString(n)

\* str::parse::<usize>: the number whose decimal form the text is.
ParseUsize(s) ==
    IF Len(s) = 1 /\ \E n \in 0..MaxNum : ToString(n) = s[1]
    THEN [ok |-> TRUE, val |-> CHOOSE n \in 0..MaxNum : ToString(n) = s[1]]
    ELSE [ok |-> FALSE, val |-> 0]

\* str::parse::<f32>, in tenths: "1.0" and "1" are the same number.
ParseF32(s) ==
    CASE s = <<"1.0">> -> [ok |-> TRUE, val |-> 10]
      [] s = <<"1">> -> [ok |-> TRUE, val |-> 10]
      [] s = <<"1.1">> -> [ok |-> TRUE, val |-> 11]
      [] s = <<"2">> -> [ok |-> TRUE, val |-> 20]
      [] OTHER -> [ok |-> FALSE, val |-> 0]

(***************************************************************************)
(* method.rs                                                               *)
(***************************************************************************)
HttpMethod == {"Get", "Post", "Put", "Patch", "Delete"}

HttpMethodTryFrom(value) ==
    CASE value = <<"GET">> -> [ok |-> TRUE, val |-> "Get"]
      [] value = <<"POST">> -> [ok |-> TRUE, val |-> "Post"]
      [] value = <<"PUT">> -> [ok |-> TRUE, val |-> "Put"]
      [] value = <<"PATCH">> -> [ok |-> TRUE, val |-> "Patch"]
      [] value = <<"DELETE">> -> [ok |-> TRUE, val |-> "Delete"]
      [] OTHER -> [ok |-> FALSE, val |-> "InvalidMethodError"]

(***************************************************************************)
(* Option values: None, or Some(v).                                        *)
(***************************************************************************)
None == <<>>
Some(v) == <<v>>

\* HashMap::get
MapGet(map, key) == IF key \in DOMAIN map THEN Some(map[key]) ELSE None

\* HashMap::insert: the value of an existing key is replaced.
MapInsert(map, key, value) ==
    [k \in (DOMAIN map) \cup {key} |-> IF k = key THEN value ELSE map[k]]

EmptyMap == [k \in {} |-> <<>>]

(***************************************************************************)
(* message.rs: Request                                                     *)
(***************************************************************************)
\* bytes.windows(4).position(b"\r\n\r\n"): the index of the first blank-line
\* delimiter, 0 when there is none.
DelimiterAt(bytes) ==
    LET hits == {i \in 1..(Len(bytes) - 1) : bytes[i] = CRLF /\ bytes[i + 1] = CRLF}
    IN  IF hits = {} THEN 0 ELSE CHOOSE i \in hits : \A j \in hits : i <= j

\* The header block &bytes[..head_len].
HeadOf(bytes) ==
    IF DelimiterAt(bytes) = 0 THEN bytes ELSE SubSeq(bytes, 1, DelimiterAt(bytes) - 1)

\* The bytes after the delimiter, &bytes[head_len + 4..].
AfterHead(bytes) ==
    IF DelimiterAt(bytes) = 0 THEN <<>>
    ELSE SubSeq(bytes, DelimiterAt(bytes) + 2, Len(bytes))

\* The first len bytes of s.
RECURSIVE TakeBytes(_, _)
TakeBytes(s, len) ==
    IF s = <<>> \/ ByteLen(Head(s)) > len THEN <<>>
    ELSE <<Head(s)>> \o TakeBytes(Tail(s), len - ByteLen(Head(s)))

ParseErr(e) == [kind |-> "err", err |-> e]
ParsePanic == [kind |-> "panic"]

\* The `while let Some(line) = lines.next()` loop of from_bytes over
\* lines[i..]: the header map, or the error of the first line without ": ".
RECURSIVE ParseHeaders(_, _, _)
ParseHeaders(lines, i, headers) ==
    IF i > Len(lines) THEN [ok |-> TRUE, headers |-> headers]
    ELSE LET l == Split(lines[i], COLON)
             header == ToAsciiLowercase(l[1])
         IN  IF Len(l) < 2 THEN [ok |-> FALSE, err |-> <<"Header", header>>]
             ELSE ParseHeaders(lines, i + 1, MapInsert(headers, header, l[2]))

\* Url::parse(format!("{protocol}://{host}{route}")) for the http scheme: the
\* authority runs up to the first '/', the path is the rest ("/" when empty).
UrlParse(protocol, host, route) ==
    LET text == host \o route
        slashes == {i \in 1..Len(text) : text[i] = SLASH}
        cut == IF slashes = {} THEN Len(text) + 1
               ELSE CHOOSE i \in slashes : \A j \in slashes : i <= j
        authority == SubSeq(text, 1, cut - 1)
    IN  IF protocol = <<>> \/ authority = <<>> THEN [ok |-> FALSE]
        ELSE [ok |-> TRUE,
              scheme |-> protocol,
              host |-> authority,
              path |-> IF cut > Len(text) THEN <<SLASH>> ELSE SubSeq(text, cut, Len(text))]

\* Request::new
RequestNew(method, url, version, headers, body) ==
    [method |-> method, route |-> url.path, protocol |-> url.scheme,
     version |-> version, host |-> url.host, headers |-> headers, body |-> body]

FromBytesBodyMut(bytes, method, route, protocol, version, headers) ==
    LET found == DelimiterAt(bytes) # 0
        hasLen == <<"content-length">> \in DOMAIN headers
        len == IF hasLen THEN ParseUsize(headers[<<"content-length">>]) ELSE [ok |-> TRUE, val |-> 0]
        url == UrlParse(protocol, headers[<<"host">>], route)
    IN  IF found /\ hasLen /\ ~len.ok THEN ParseErr(<<"Header", <<"content-length">>>>)
        ELSE IF found /\ hasLen /\ len.val > BytesLen(AfterHead(bytes)) THEN ParsePanic
        ELSE IF ~url.ok THEN ParseErr(<<"Route">>)
        ELSE [kind |-> "ok",
              req |-> RequestNew(method, url, version, headers,
                                 IF found /\ hasLen THEN AfterHead(bytes) ELSE <<>>)]

\* The body step of from_bytes (message.rs:73-83), then the url and the
\* Request. The slice bytes[head_len + 4..head_len + 4 + len] panics when it
\* ends after the buffer.
FromBytesBody(bytes, method, route, protocol, version, headers) ==
    LET found == DelimiterAt(bytes) # 0
        hasLen == <<"content-length">> \in DOMAIN headers
        len == IF hasLen THEN ParseUsize(headers[<<"content-length">>]) ELSE [ok |-> TRUE, val |-> 0]
        url == UrlParse(protocol, headers[<<"host">>], route)
    IN  IF found /\ hasLen /\ ~len.ok THEN ParseErr(<<"Header", <<"content-length">>>>)
        ELSE IF found /\ hasLen /\ len.val > BytesLen(AfterHead(bytes)) THEN ParsePanic
        ELSE IF ~url.ok THEN ParseErr(<<"Route">>)
        ELSE [kind |-> "ok",
              req |-> RequestNew(method, url, version, headers,
                                 IF found /\ hasLen THEN TakeBytes(AfterHead(bytes), len.val)
                                 ELSE <<>>)]

\* Request::from_bytes
FromBytes(bytes) ==
    LET head == HeadOf(bytes)
        lines == Split(head, CRLF)
        first == Split(lines[1], SP)
        method == HttpMethodTryFrom(first[1])
        v == Split(first[3], SLASH)
        version == ParseF32(v[2])
        hdrs == ParseHeaders(lines, 2, EmptyMap)
    IN  IF \E i \in 1..Len(head) : head[i] = BADBYTE THEN ParseErr(<<"MalformedRequest">>)
        ELSE IF ~method.ok THEN ParseErr(<<"Method">>)
        ELSE IF Len(first) < 2 THEN ParseErr(<<"Route">>)
        ELSE IF Len(first) < 3 THEN ParseErr(<<"Protocol">>)
        ELSE IF Len(v) < 2 \/ ~version.ok THEN ParseErr(<<"Protocol">>)
        ELSE IF ~hdrs.ok THEN ParseErr(hdrs.err)
        ELSE IF <<"host">> \notin DOMAIN hdrs.headers THEN ParseErr(<<"Host">>)
        ELSE FromBytesBody(bytes, method.val, first[2], ToAsciiLowercase(v[1]),
                           version.val, hdrs.headers)

\* Request::header
RequestHeader(req, header) == MapGet(req.headers, header)

\* Request::text: the body as text, or the Body error.
RequestText(req) ==
    IF \E i \in 1..Len(req.body) : req.body[i] = BADBYTE
    THEN [ok |-> FALSE, err |-> <<"Body">>]
    ELSE [ok |-> TRUE, val |-> req.body]

\* Request::json::<Something>: only the lexeme JSONDOC is a serialized Something.
JSONDOC == "{json}"

RequestJson(req) ==
    IF req.body = <<JSONDOC>> THEN [ok |-> TRUE, val |-> req.body]
    ELSE [ok |-> FALSE, err |-> <<"Body">>]

(***************************************************************************)
(* message.rs: Response                                                    *)
(***************************************************************************)
\* Response::new
ResponseNew(status) ==
    [protocol |-> <<>>, version |-> 0, status |-> status, headers |-> EmptyMap, body |-> <<>>]

\* Response::header
ResponseHeader(res, header, value) ==
    [res EXCEPT !.headers = MapInsert(res.headers, header, value)]

SetBodyMut(res, body, content_type) ==
    ResponseHeader(
        ResponseHeader([res EXCEPT !.body = res.body \o body],
                       "Content-Length", UsizeToString(BytesLen(res.body))),
        "Content-Type", content_type)

\* Response::set_body: the reader is drained into the body, then
\* Content-Length and Content-Type are set.
SetBody(res, body, content_type) ==
    LET filled == [res EXCEPT !.body = res.body \o body]
    IN  ResponseHeader(
            ResponseHeader(filled, "Content-Length", UsizeToString(BytesLen(filled.body))),
            "Content-Type", content_type)

\* Response::text
ResponseText(text, status) == SetBody(ResponseNew(status), text, "text/html")

\* The files of the working directory, by name (a name is its stem, the dots
\* and the extension), with their contents.
FileSystem ==
    (<<"index", ".", "HTML">> :> <<"<p>", "o", "k">>)
    @@ (<<"logo", ".", "png">> :> <<BADBYTE, "g">>)
    @@ (<<"notes">> :> <<>>)

\* Response::file_content_type
FileContentType(filename) ==
    LET pieces == Split(filename, ".")
        extension == ToAsciiLowercase(pieces[Len(pieces)])
    IN  CASE extension \in {<<"html">>, <<"htm">>} -> "text/html; charset=utf-8"
          [] extension = <<"txt">> -> "text/plain; charset=utf-8"
          [] extension = <<"js">> -> "application/javascript; charset=utf-8"
          [] extension = <<"css">> -> "text/css; charset=utf-8"
          [] extension = <<"xml">> -> "text/xml; charset=utf-8"
          [] extension = <<"csv">> -> "text/csv; charset=utf-8"
          [] extension = <<"json">> -> "application/json; charset=utf-8"
          [] extension = <<"png">> -> "image/png"
          [] extension \in {<<"jpg">>, <<"jpeg">>} -> "image/jpeg"
          [] extension = <<"gif">> -> "image/gif"
          [] extension = <<"oga">> -> "audio/ogg"
          [] extension = <<"ogv">> -> "video/ogg"
          [] extension \in {<<"ogg">>, <<"ogx">>} -> "application/ogg"
          [] extension = <<"cda">> -> "application/x-cdf"
          [] extension = <<"csh">> -> "application/x-csh"
          [] extension = <<"avif">> -> "image/avif"
          [] extension = <<"avi">> -> "video/x-msvideo"
          [] extension = <<"azw">> -> "application/vnd.amazon.ebook"
          [] OTHER -> "application/octet-stream"

ResponseFileMut(filename, status) ==
    IF filename \in DOMAIN FileSystem
    THEN [ok |-> TRUE,
          res |-> ResponseHeader([ResponseNew(status) EXCEPT !.body = FileSystem[filename]],
                                 "Content-Length",
                                 UsizeToString(BytesLen(FileSystem[filename])))]
    ELSE [ok |-> FALSE, err |-> "NotFound"]

\* Response::file: File::open fails with the NotFound kind for a name that
\* is not in the directory.
ResponseFile(filename, status) ==
    IF filename \in DOMAIN FileSystem
    THEN [ok |-> TRUE,
          res |-> SetBody(ResponseNew(status), FileSystem[filename], FileContentType(filename))]
    ELSE [ok |-> FALSE, err |-> "NotFound"]

\* serde_json::to_string of the value a handler gives to Response::json:
\* a Something serializes to JSONDOC, the unit to `null`, and a map whose
\* keys are not strings does not serialize.
JsonValues == {"something", "unit", "map_with_tuple_keys"}

SerdeToString(json) ==
    CASE json = "something" -> [ok |-> TRUE, val |-> <<JSONDOC>>]
      [] json = "unit" -> [ok |-> TRUE, val |-> <<"n", "u", "l", "l">>]
      [] OTHER -> [ok |-> FALSE, err |-> "key must be a string"]

\* Response::json
ResponseJson(json, status) ==
    IF SerdeToString(json).ok
    THEN [ok |-> TRUE,
          res |-> SetBody(ResponseNew(status), SerdeToString(json).val, "application/json")]
    ELSE [ok |-> FALSE, err |-> SerdeToString(json).err]

\* f32::to_string of a version held in tenths: 1.0 prints as `1`.
F32ToString(v) ==
    IF v % 10 = 0 THEN ToString(v \div 10)
    ELSE ToString(v \div 10) \o "." \o ToString(v % 10)

\* str::to_ascii_uppercase
ToAsciiUppercase(s) == [i \in 1..Len(s) |-> UpperLexeme(s[i])]

\* The `for (header, value) in self.headers` loop of to_bytes over the
\* headers named by order[i..].
RECURSIVE HeaderLines(_, _, _)
HeaderLines(headers, order, i) ==
    IF i > Len(order) THEN <<>>
    ELSE <<order[i], COLON, headers[order[i]], CRLF>> \o HeaderLines(headers, order, i + 1)

ToBytesMut(res, order) ==
    ToAsciiUppercase(res.protocol) \o <<SLASH>>
    \o <<F32ToString(res.version), SP>>
    \o <<UsizeToString(res.status), CRLF>>
    \o HeaderLines(res.headers, order, 1)
    \o <<CRLF>>
    \o res.body \o <<CRLF, CRLF>>

\* Response::to_bytes; `order` is the order in which the HashMap yields its
\* entries.
ToBytes(res, order) ==
    ToAsciiUppercase(res.protocol) \o <<SLASH>>
    \o <<F32ToString(res.version), SP>>
    \o <<UsizeToString(res.status), CRLF>>
    \o HeaderLines(res.headers, order, 1)
    \o <<CRLF>>
    \o (IF Len(res.body) > 0 THEN res.body \o <<CRLF, CRLF>> ELSE <<>>)

\* The orders in which a HashMap with the key set `keys` can yield them.
IterationOrders(keys) ==
    {order \in [1..Cardinality(keys) -> keys] :
        \A i, j \in 1..Cardinality(keys) : i # j => order[i] # order[j]}

\* Response::fill_from
FillFrom(res, req) == [res EXCEPT !.version = req.version, !.protocol = req.protocol]

(***************************************************************************)
(* error.rs                                                                *)
(***************************************************************************)
\* impl From<RequestParseError> for DefaultError
DefaultErrorFromParse(err) == <<"Other", err>>

\* impl From<io::Error> for DefaultError
DefaultErrorFromIoMut(kind) == <<"Other", kind>>

DefaultErrorFromIo(kind) == IF kind = "NotFound" THEN <<"NotFound">> ELSE <<"Other", kind>>

\* DEFAULT_HANDLER
DEFAULT_HANDLER(req, err) ==
    CASE err[1] = "NotFound" -> ResponseText(<<"Not found">>, 404)
      [] err[1] = "RequestParse" -> ResponseText(<<"Malformed request">>, 500)
      [] err[1] = "Other" -> ResponseText(<<"Internal server error">>, 500)

(***************************************************************************)
(* Route actions. NOT_FOUND_ACTION is route.rs:10; "index" and "post_json" *)
(* are the handlers main.rs registers; "echo" answers with the request     *)
(* body as text.                                                           *)
(***************************************************************************)
NOT_FOUND_ACTION == "NOT_FOUND_ACTION"

UserActions == {"echo", "index", "post_json"}

\* The file each file-serving handler gives to Response::file: "hello" and
\* "hel" are the handlers of main.rs, "page" serves a file that exists.
HandlerFile(action) ==
    CASE action = "hello" -> <<"hellsdfo", ".", "html">>
      [] action = "hel" -> <<"helfdflo", ".", "html">>
      [] action = "page" -> <<"index", ".", "HTML">>

FileActions == {"hello", "hel", "page"}

Invoke(action, req) ==
    CASE action = NOT_FOUND_ACTION -> [ok |-> FALSE, err |-> <<"NotFound">>]
      [] action = "index" -> [ok |-> TRUE, res |-> ResponseText(<<"Welcome to index">>, 200)]
      [] action = "echo" ->
            IF RequestText(req).ok
            THEN [ok |-> TRUE, res |-> ResponseText(RequestText(req).val, 200)]
            ELSE [ok |-> FALSE, err |-> DefaultErrorFromParse(RequestText(req).err)]
      [] action = "post_json" ->
            IF RequestJson(req).ok
            THEN [ok |-> TRUE,
                  res |-> ResponseText(<<"yuor jason is ">> \o RequestJson(req).val, 200)]
            ELSE [ok |-> FALSE, err |-> DefaultErrorFromParse(RequestJson(req).err)]
      [] action \in FileActions ->
            IF ResponseFile(HandlerFile(action), 200).ok
            THEN [ok |-> TRUE, res |-> ResponseFile(HandlerFile(action), 200).res]
            ELSE [ok |-> FALSE,
                  err |-> DefaultErrorFromIo(ResponseFile(HandlerFile(action), 200).err)]

(***************************************************************************)
(* route.rs. A routing tree is the function from the key sequence of each  *)
(* of its nodes (the segments on the way from the root) to the node's      *)
(* action; the children of a node are the keys one segment longer.         *)
(***************************************************************************)
\* RoutingTreeNode::new
RoutingTreeNodeNew(action) == (<<>> :> action)

\* Router::new
RouterNew(not_found_action) ==
    [route_tree |-> [m \in HttpMethod |-> RoutingTreeNodeNew(not_found_action)],
     not_found_action |-> not_found_action]

\* Router::split_route
SplitRoute(route) == Split(TrimMatches(route, SLASH), SLASH)

\* RoutingTreeNode::get on the node with key `at`.
RECURSIVE TreeGet(_, _, _)
TreeGet(tree, at, route) ==
    IF route = <<>> \/ Head(route) = <<>> THEN Some(tree[at])
    ELSE IF Append(at, Head(route)) \in DOMAIN tree
         THEN TreeGet(tree, Append(at, Head(route)), Tail(route))
         ELSE None

\* RoutingTreeNode::add on the node with key `at`.
RECURSIVE TreeAdd(_, _, _, _, _)
TreeAdd(tree, at, route, action, not_found_action) ==
    IF route = <<>> \/ Head(route) = <<>> THEN [tree EXCEPT ![at] = action]
    ELSE LET next == Append(at, Head(route))
             grown == IF next \in DOMAIN tree THEN tree
                      ELSE tree @@ (next :> not_found_action)
         IN  TreeAdd(grown, next, Tail(route), action, not_found_action)

\* Router::get
RouterGet(r, method, route) ==
    LET found == TreeGet(r.route_tree[method], <<>>, SplitRoute(route))
    IN  IF found = None THEN r.not_found_action ELSE found[1]

\* Router::add
RouterAdd(r, method, route, action) ==
    [r EXCEPT !.route_tree[method] =
        TreeAdd(r.route_tree[method], <<>>, SplitRoute(route), action, r.not_found_action)]

(***************************************************************************)
(* The buffers a client sends, by name.                                    *)
(***************************************************************************)
RequestLine(method, route, version) ==
    <<method, SP>> \o route \o <<SP, "HTTP", SLASH, version, CRLF>>

HostLine == <<"Host", COLON, "x", CRLF>>

Bytes(name) ==
    CASE name = "echo" ->
            RequestLine("POST", <<SLASH, "echo">>, "1.1") \o HostLine
            \o <<"Content-Length", COLON, "2", CRLF, CRLF, "h", "i">>
      [] name = "get10" -> RequestLine("GET", <<SLASH>>, "1.0") \o HostLine \o <<CRLF>>
      [] name = "close11" ->
            RequestLine("GET", <<SLASH>>, "1.1") \o HostLine
            \o <<"Connection", COLON, "close", CRLF, CRLF>>
      [] name = "badmethod" -> RequestLine("BREW", <<SLASH>>, "1.1") \o HostLine \o <<CRLF>>
      [] name = "short" ->
            RequestLine("POST", <<SLASH, "echo">>, "1.1") \o HostLine
            \o <<"Content-Length", COLON, "5", CRLF, CRLF, "h", "i">>
      [] name = "postbad" ->
            RequestLine("POST", <<SLASH>>, "1.1") \o HostLine
            \o <<"Content-Length", COLON, "2", CRLF, CRLF, "h", "i">>
      [] name = "gethang" -> RequestLine("GET", <<SLASH, "hang">>, "1.1") \o HostLine \o <<CRLF>>
      [] name = "get11" -> RequestLine("GET", <<SLASH>>, "1.1") \o HostLine \o <<CRLF>>
      [] name = "getpad" ->
            RequestLine("GET", <<SLASH>>, "1.1") \o HostLine
            \o <<"X-Pad", COLON, "PAD", CRLF, CRLF>>
      [] name = "gethello" ->
            RequestLine("GET", <<SLASH, "hello">>, "1.1") \o HostLine \o <<CRLF>>
      [] name = "getpage" -> RequestLine("GET", <<SLASH, "page">>, "1.1") \o HostLine \o <<CRLF>>

BufferNames == {"echo", "get10", "close11", "badmethod", "short", "postbad"}

\* The buffers of every specification, decoded once: what
\* Request::from_bytes returns for each.
AllBufferNames == BufferNames \cup {"gethang", "get11", "gethello", "getpage", "getpad"}

Decoded == [name \in AllBufferNames |-> FromBytes(Bytes(name))]

\* The registrations the embedding program makes before listen().
Registrations ==
    { <<"Post", <<SLASH, "echo">>, "echo">>,
      <<"Get", <<SLASH>>, "index">>,
      <<"Post", <<SLASH>>, "post_json">> }

\* The connections the listener accepts.
Conns == {"c1"}

NoAdd == [n |-> 0, method |-> "Get", route |-> <<>>, action |-> NOT_FOUND_ACTION]

(***************************************************************************)
(* http_server.rs                                                          *)
(***************************************************************************)
\* HttpServer::panic_if_active: does the call panic?
PanicIfActiveMut(isActive) == FALSE

PanicIfActive(isActive) == isActive

\* The keep-alive decision of handle_client (http_server.rs:94).
ShouldCloseMut(req) == RequestHeader(req, <<"Connection">>) = Some(<<"close">>)

ShouldClose(req) ==
    req.version = 10 \/ Some(<<"close">>) = RequestHeader(req, <<"Connection">>)

\* The response handle_client builds for a decoded request (http_server.rs:81-88).
Respond(r, req) ==
    LET action == RouterGet(r, req.method, req.route)
        result == Invoke(action, req)
        response == IF result.ok THEN result.res ELSE DEFAULT_HANDLER(req, result.err)
    IN  FillFrom(response, req)

\* No Response is under construction and no buffer is being decoded.
NoCodec ==
    /\ resp = None
    /\ inserted = <<>>
    /\ wire = None
    /\ buffer = <<>>
    /\ outcome = None

\* Nothing was sent byte by byte.
NoDelivery ==
    /\ stream = <<>>
    /\ data = <<>>
    /\ sent = <<>>
    /\ answers = <<>>

\* HttpServer::default() and the state before any connection.
Init ==
    /\ active = FALSE
    /\ serverPc = "config"
    /\ router = RouterNew(NOT_FOUND_ACTION)
    /\ routes = {}
    /\ lastAdd = NoAdd
    /\ pc = [c \in Conns |-> "unaccepted"]
    /\ sock = [c \in Conns |-> <<>>]
    /\ peerOpen = [c \in Conns |-> TRUE]
    /\ elapsed = [c \in Conns |-> 0]
    /\ exch = [c \in Conns |-> <<>>]
    /\ exit = [c \in Conns |-> "none"]
    /\ NoCodec
    /\ NoDelivery

\* The process ends (a panic of the main thread, or listen returning an
\* error into main's unwrap): its workers and their connections go with it.
ProcessEnds(how) ==
    /\ serverPc' = how
    /\ pc' = [c \in DOMAIN pc |-> IF pc[c] = "unaccepted" THEN "unaccepted" ELSE "Killed"]
    /\ sock' = [c \in DOMAIN pc |-> <<>>]
    /\ peerOpen' = [c \in DOMAIN pc |-> FALSE]
    /\ elapsed' = [c \in DOMAIN pc |-> 0]
    /\ exch' = [c \in DOMAIN pc |-> <<>>]
    /\ exit' = [c \in DOMAIN pc |-> IF pc[c] = "unaccepted" THEN "none" ELSE "process_end"]

\* HttpServer::route (get, post, put, patch, delete call it): edit_router
\* panics when the server is active, otherwise the route is added.
Route(method, route, action) ==
    /\ serverPc \in {"config", "listening"}
    /\ lastAdd.n < MaxRoutes
    /\ IF PanicIfActive(active)
       THEN /\ ProcessEnds("panicked")
            /\ UNCHANGED <<active, router, routes, lastAdd>>
       ELSE /\ router' = RouterAdd(router, method, route, action)
            /\ routes' = routes \cup {<<method, SplitRoute(route)>>}
            /\ lastAdd' = [n |-> lastAdd.n + 1, method |-> method, route |-> route,
                           action |-> action]
            /\ UNCHANGED <<active, serverPc>>
            /\ UNCHANGED conns
    /\ UNCHANGED codec
    /\ UNCHANGED delivery

\* HttpServer::listen, the bind succeeds: the server becomes active.
Listen ==
    /\ serverPc = "config"
    /\ active' = TRUE
    /\ serverPc' = "listening"
    /\ UNCHANGED <<router, routes, lastAdd>>
    /\ UNCHANGED conns
    /\ UNCHANGED codec
    /\ UNCHANGED delivery

\* HttpServer::listen, TcpListener::bind fails: listen returns the error
\* before the server is active, and main's unwrap ends the process.
ListenFail ==
    /\ serverPc = "config"
    /\ ProcessEnds("exited")
    /\ UNCHANGED <<active, router, routes, lastAdd>>
    /\ UNCHANGED codec
    /\ UNCHANGED delivery

\* listener.incoming() yields an error: listen returns it and the process ends.
AcceptFail ==
    /\ serverPc = "listening"
    /\ ProcessEnds("exited")
    /\ UNCHANGED <<active, router, routes, lastAdd>>
    /\ UNCHANGED codec
    /\ UNCHANGED delivery

\* handle_client: the worker is spawned and, with a peer address, enters
\* its loop with last_request = now.
Accept(c) ==
    /\ serverPc = "listening"
    /\ pc[c] = "unaccepted"
    /\ pc' = [pc EXCEPT ![c] = "Reading"]
    /\ elapsed' = [elapsed EXCEPT ![c] = 0]
    /\ UNCHANGED server
    /\ UNCHANGED <<sock, peerOpen, exch, exit>>
    /\ UNCHANGED codec
    /\ UNCHANGED delivery

\* handle_client: client.peer_addr() fails and the worker ends at once.
AcceptNoPeer(c) ==
    /\ serverPc = "listening"
    /\ pc[c] = "unaccepted"
    /\ pc' = [pc EXCEPT ![c] = "Closing"]
    /\ exit' = [exit EXCEPT ![c] = "no_peer_addr"]
    /\ peerOpen' = [peerOpen EXCEPT ![c] = FALSE]
    /\ UNCHANGED server
    /\ UNCHANGED <<sock, elapsed, exch>>
    /\ UNCHANGED codec
    /\ UNCHANGED delivery

\* The client puts one buffer on the connection.
ClientSend(c, name) ==
    /\ serverPc = "listening"
    /\ pc[c] = "Reading"
    /\ peerOpen[c]
    /\ Len(sock[c]) + Len(exch[c]) < MaxSends
    /\ sock' = [sock EXCEPT ![c] = Append(@, name)]
    /\ UNCHANGED server
    /\ UNCHANGED <<pc, peerOpen, elapsed, exch, exit>>
    /\ UNCHANGED codec
    /\ UNCHANGED delivery

\* The client closes its end: reads return 0 bytes once the socket is drained.
ClientClose(c) ==
    /\ serverPc = "listening"
    /\ pc[c] = "Reading"
    /\ peerOpen[c]
    /\ peerOpen' = [peerOpen EXCEPT ![c] = FALSE]
    /\ UNCHANGED server
    /\ UNCHANGED <<pc, sock, elapsed, exch, exit>>
    /\ UNCHANGED codec
    /\ UNCHANGED delivery

\* One second passes for the workers in their loop (the clock stops
\* mattering once it is past the idle threshold).
Tick ==
    /\ serverPc = "listening"
    /\ \E c \in DOMAIN pc : pc[c] = "Reading" /\ elapsed[c] <= IdleSecs
    /\ elapsed' = [c \in DOMAIN pc |->
                     IF pc[c] = "Reading" THEN Min(elapsed[c] + 1, IdleSecs + 1)
                     ELSE elapsed[c]]
    /\ UNCHANGED server
    /\ UNCHANGED <<pc, sock, peerOpen, exch, exit>>
    /\ UNCHANGED codec
    /\ UNCHANGED delivery

\* The record of one turn: `stuck` is the set of workers that were inside a
\* handler that does not return while this turn ran, `panicked` the set of
\* workers that had panicked before it.
Exchange(name, kind, res, written, then) ==
    [data |-> name, kind |-> kind, res |-> res, written |-> written, then |-> then,
     stuck |-> {d \in DOMAIN pc : pc[d] = "Stuck"},
     panicked |-> {d \in DOMAIN pc : pc[d] = "Panicked"}]

\* One turn of the worker's loop with a non-empty buffer (http_server.rs:76-98).
\* `wrote` is the outcome of client.write: it can fail once the peer is gone.
Serve(c, wrote) ==
    /\ serverPc = "listening"
    /\ pc[c] = "Reading"
    /\ sock[c] # <<>>
    /\ wrote \/ ~peerOpen[c]
    /\ LET name == Head(sock[c])
           parsed == Decoded[name]
       IN  /\ sock' = [sock EXCEPT ![c] = Tail(@)]
           /\ IF parsed.kind # "ok"
              THEN \* Request::from_bytes(..).unwrap(), or the slice inside it, panics
                   /\ wrote
                   /\ pc' = [pc EXCEPT ![c] = "Panicked"]
                   /\ exit' = [exit EXCEPT ![c] = "decode_panic"]
                   /\ exch' = [exch EXCEPT ![c] =
                                 Append(@, Exchange(name, parsed.kind, None, FALSE, "Panicked"))]
                   /\ UNCHANGED elapsed
              ELSE LET response == Respond(router, parsed.req)
                   IN  IF ~wrote
                       THEN \* client.write(&bytes).unwrap() panics
                            /\ pc' = [pc EXCEPT ![c] = "Panicked"]
                            /\ exit' = [exit EXCEPT ![c] = "write_failure"]
                            /\ exch' = [exch EXCEPT ![c] =
                                 Append(@, Exchange(name, "ok", Some(response), FALSE, "Panicked"))]
                            /\ UNCHANGED elapsed
                       ELSE IF ShouldClose(parsed.req)
                       THEN /\ pc' = [pc EXCEPT ![c] = "Closing"]
                            /\ exit' = [exit EXCEPT ![c] = "keep_alive"]
                            /\ exch' = [exch EXCEPT ![c] =
                                 Append(@, Exchange(name, "ok", Some(response), TRUE, "Closing"))]
                            /\ UNCHANGED elapsed
                       ELSE /\ exch' = [exch EXCEPT ![c] =
                                 Append(@, Exchange(name, "ok", Some(response), TRUE, "Reading"))]
                            /\ elapsed' = [elapsed EXCEPT ![c] = 0]
                            /\ UNCHANGED <<pc, exit>>
    /\ UNCHANGED server
    /\ UNCHANGED <<peerOpen>>
    /\ UNCHANGED codec
    /\ UNCHANGED delivery

\* One turn of the loop in which the read gathers nothing (the peer is gone)
\* and last_request.elapsed().as_secs() > 4: the worker leaves its loop. With
\* less time elapsed the turn only sleeps and changes nothing.
IdleTimeout(c) ==
    /\ serverPc = "listening"
    /\ pc[c] = "Reading"
    /\ sock[c] = <<>>
    /\ ~peerOpen[c]
    /\ elapsed[c] > IdleSecs
    /\ pc' = [pc EXCEPT ![c] = "Closing"]
    /\ exit' = [exit EXCEPT ![c] = "idle_timeout"]
    /\ UNCHANGED server
    /\ UNCHANGED <<sock, peerOpen, elapsed, exch>>
    /\ UNCHANGED codec
    /\ UNCHANGED delivery

Next ==
    \/ \E reg \in Registrations : Route(reg[1], reg[2], reg[3])
    \/ Listen
    \/ ListenFail
    \/ AcceptFail
    \/ \E c \in Conns : Accept(c)
    \/ \E c \in Conns : AcceptNoPeer(c)
    \/ \E c \in Conns, name \in BufferNames : ClientSend(c, name)
    \/ \E c \in Conns : ClientClose(c)
    \/ Tick
    \/ \E c \in Conns, wrote \in BOOLEAN : Serve(c, wrote)
    \/ \E c \in Conns : IdleTimeout(c)

Spec == Init /\ [][Next]_vars

(***************************************************************************)
(* The router on its own: Router::add called with any route string.        *)
(***************************************************************************)
PathAlphabet == {SLASH, "a", "b"}

Paths == UNION {[1..n -> PathAlphabet] : n \in 0..MaxPathLen}

RegMethods == {"Get", "Post"}

RegActions == {"echo", "index"}

\* Router::add, and the records of it.
Register(method, route, action) ==
    /\ lastAdd.n < MaxAdds
    /\ router' = RouterAdd(router, method, route, action)
    /\ routes' = routes \cup {<<method, SplitRoute(route)>>}
    /\ lastAdd' = [n |-> lastAdd.n + 1, method |-> method, route |-> route, action |-> action]
    /\ UNCHANGED <<active, serverPc>>
    /\ UNCHANGED conns
    /\ UNCHANGED codec
    /\ UNCHANGED delivery

RouterNext == \E method \in RegMethods, route \in Paths, action \in RegActions :
                  Register(method, route, action)

RouterSpec == Init /\ [][RouterNext]_vars

(***************************************************************************)
(* Properties of the connection loop.                                      *)
(***************************************************************************)
Exchanges == {<<c, i>> \in (DOMAIN exch) \X (1..MaxSends + 1) : i <= Len(exch[c])}

ExchangeAt(e) == exch[e[1]][e[2]]

\* C1: whenever a non-empty buffer is read and Request decoding fails with a
\* RequestParseError, a response is written on that connection.
C1_DecodeFailureAnswered ==
    \A e \in Exchanges :
        ExchangeAt(e).kind = "err" => ExchangeAt(e).res # None /\ ExchangeAt(e).written

\* The decoded request carries a `Connection: close` header.
CarriesClose(name) ==
    /\ FromBytes(Bytes(name)).kind = "ok"
    /\ MapGet(FromBytes(Bytes(name)).req.headers, <<"connection">>) = Some(<<"close">>)

\* C2: after the response to a decoded request with a `Connection: close`
\* header is written, the worker goes to Closing and reads no more.
C2_ConnectionCloseCloses ==
    \A e \in Exchanges :
        CarriesClose(ExchangeAt(e).data) /\ ExchangeAt(e).written
            => ExchangeAt(e).then = "Closing"

\* The buffer has the delimiter and a Content-Length larger than what
\* follows the delimiter.
OverlongLength(bytes) ==
    LET hdrs == ParseHeaders(Split(HeadOf(bytes), CRLF), 2, EmptyMap)
    IN  /\ DelimiterAt(bytes) # 0
        /\ hdrs.ok
        /\ <<"content-length">> \in DOMAIN hdrs.headers
        /\ ParseUsize(hdrs.headers[<<"content-length">>]).ok
        /\ ParseUsize(hdrs.headers[<<"content-length">>]).val > BytesLen(AfterHead(bytes))

\* C3: decoding a buffer whose Content-Length exceeds the bytes after the
\* delimiter does not panic: Request::from_bytes returns a parse error.
C3_OverlongLengthIsParseError ==
    \A e \in Exchanges :
        OverlongLength(Bytes(ExchangeAt(e).data)) => ExchangeAt(e).kind = "err"

\* C4: a worker leaves its loop only by the keep-alive decision, the client's
\* disconnect, a write failure or the idle timeout; after a decode failure
\* the loop is back in Reading.
C4_OnlySevereExits ==
    /\ \A c \in DOMAIN pc :
          pc[c] \in {"Closing", "Panicked"}
              => exit[c] \in {"keep_alive", "no_peer_addr", "write_failure", "idle_timeout"}
    /\ \A e \in Exchanges : ExchangeAt(e).kind # "ok" => ExchangeAt(e).then = "Reading"

\* C5: once the server is active the routing trees never change: a
\* registration changes the router only before activation, and one attempted
\* after it ends in a panic with the router as it was.
C5_RouterFrozenOnceActive ==
    [][/\ active => active' /\ router' = router /\ routes' = routes /\ lastAdd' = lastAdd
       /\ router' # router => ~active /\ ~active']_vars

\* C5 occurs: routes were registered, the server became active, and a later
\* registration was rejected by the panic.
C5_Witness == active /\ serverPc = "panicked" /\ routes # {} /\ router # RouterNew(NOT_FOUND_ACTION)

\* C9: the POST /echo request with Content-Length 2 and body `hi`, routed to
\* the echo handler, is answered with body `hi` and Content-Length `2`, and
\* the worker returns to Reading, where it stays until a later turn of its
\* loop ends it.
C9_EchoKeepsAlive ==
    \A e \in Exchanges :
        /\ ExchangeAt(e).data = "echo"
        /\ RouterGet(router, "Post", <<SLASH, "echo">>) = "echo"
        /\ ExchangeAt(e).written
        => /\ ExchangeAt(e).res[1].body = <<"h", "i">>
           /\ ExchangeAt(e).res[1].headers["Content-Length"] = "2"
           /\ ExchangeAt(e).then = "Reading"
           /\ e[2] = Len(exch[e[1]]) /\ exit[e[1]] = "none" => pc[e[1]] = "Reading"

\* C9 occurs: the echo exchange was made and the next request on the same
\* connection was answered too.
C9_Witness ==
    \E c \in DOMAIN exch :
        /\ Len(exch[c]) = 2
        /\ exch[c][1].data = "echo"
        /\ exch[c][1].written
        /\ exch[c][1].res[1].body = <<"h", "i">>
        /\ exch[c][2].written

\* C10: `GET / HTTP/1.0` with a Host header, with no routes registered, is
\* answered with the 404 of the not-found handler and the default
\* translator, and the connection closes after that exchange.
C10_NotFoundThenClose ==
    \A e \in Exchanges :
        ExchangeAt(e).data = "get10" /\ routes = {} /\ ExchangeAt(e).written
        => /\ ExchangeAt(e).res[1].status = 404
           /\ ExchangeAt(e).res[1].body = <<"Not found">>
           /\ ExchangeAt(e).then = "Closing"
           /\ e[2] = Len(exch[e[1]])
           /\ pc[e[1]] = "Closing"
           /\ exit[e[1]] = "keep_alive"

\* C10 occurs: the single exchange was made and a buffer sent after it is
\* left unread.
C10_Witness ==
    \E c \in DOMAIN exch :
        /\ routes = {}
        /\ Len(exch[c]) = 1
        /\ exch[c][1].data = "get10"
        /\ exch[c][1].res[1].status = 404
        /\ pc[c] = "Closing"
        /\ sock[c] # <<>>

(***************************************************************************)
(* Properties of the router.                                               *)
(***************************************************************************)
PathAB == <<SLASH, "a", SLASH, "b">>
PathABSlash == <<SLASH, "a", SLASH, "b", SLASH>>
PathA == <<SLASH, "a">>
PathABC == <<SLASH, "a", SLASH, "b", SLASH, "c">>

LookupPaths == Paths \cup {PathAB, PathABSlash, PathA, PathABC}

\* The segment sequence of a route: the pieces between the separators of the
\* trimmed route, none for the root.
Segments(route) == IF SplitRoute(route) = <<<<>>>> THEN <<>> ELSE SplitRoute(route)

\* C6: get returns a registered handler only for a path whose segment
\* sequence is that of a path registered for the method; with only /a/b
\* registered, /a/b and /a/b/ resolve to it and /a and /a/b/c to not-found.
C6_RoutingExact ==
    /\ \A m \in HttpMethod, p \in LookupPaths :
          RouterGet(router, m, p) \in UserActions
              => \E r \in routes : r[1] = m /\ r[2] = SplitRoute(p)
    /\ routes = {<<"Get", SplitRoute(PathAB)>>}
          => /\ RouterGet(router, "Get", PathAB) = lastAdd.action
             /\ RouterGet(router, "Get", PathABSlash) = lastAdd.action
             /\ RouterGet(router, "Get", PathA) = router.not_found_action
             /\ RouterGet(router, "Get", PathABC) = router.not_found_action

\* Some segment of the path has no matching child on the walk from the root.
MissesChild(tree, segments) ==
    \E i \in 1..Len(segments) : SubSeq(segments, 1, i) \notin DOMAIN tree

\* C7: get always returns a handler, and the router's not-found handler when
\* some segment of the path has no matching child.
C7_ResolveTotal ==
    \A m \in HttpMethod, p \in LookupPaths :
        /\ RouterGet(router, m, p) \in UserActions \cup {NOT_FOUND_ACTION}
        /\ MissesChild(router.route_tree[m], Segments(p))
              => RouterGet(router, m, p) = router.not_found_action

\* Two routes with the same parent and a different last segment.
Siblings(p, q) ==
    /\ Len(Segments(p)) = Len(Segments(q))
    /\ Len(Segments(p)) >= 1
    /\ SubSeq(Segments(p), 1, Len(Segments(p)) - 1) = SubSeq(Segments(q), 1, Len(Segments(q)) - 1)
    /\ Segments(p) # Segments(q)

\* C8: registering the same method and path a second time makes the second
\* handler the one resolved, and leaves the lookups of sibling paths as they
\* were before the second registration.
C8_LastRegistrationWins ==
    [][(/\ lastAdd.n >= 1
        /\ lastAdd'.n = lastAdd.n + 1
        /\ lastAdd'.method = lastAdd.method
        /\ lastAdd'.route = lastAdd.route)
       => /\ RouterGet(router', lastAdd'.method, lastAdd'.route) = lastAdd'.action
          /\ \A q \in LookupPaths :
                Siblings(lastAdd.route, q)
                    => RouterGet(router', lastAdd.method, q) = RouterGet(router, lastAdd.method, q)]_vars

(***************************************************************************)
(* The idle timeout.                                                       *)
(***************************************************************************)
\* The worker is in its loop with nothing to read and more than the idle
\* threshold has passed since last_request.
IdleBeyondThreshold(c) == pc[c] = "Reading" /\ sock[c] = <<>> /\ elapsed[c] > IdleSecs

\* C11: a worker whose connection brings no more bytes, with more than the
\* idle threshold (4 seconds) elapsed since the last processed request (or
\* since it was accepted), goes to Closing: whenever the connection is idle
\* beyond the threshold the idle exit can be taken, so that a peer that
\* sends nothing more does not keep the worker.
C11_IdleConnectionCloses ==
    \A c \in DOMAIN pc :
        serverPc = "listening" /\ IdleBeyondThreshold(c) => ENABLED IdleTimeout(c)

(***************************************************************************)
(* Several connections at once, one of them in a handler that never        *)
(* returns. Each worker holds a read guard of the router's RwLock for as   *)
(* long as it lives (http_server.rs:62); the listener only spawns.         *)
(***************************************************************************)
ConcConns == {"c1", "c2"}

ConcBufferNames == {"gethang", "get11"}

\* A handler of the embedding program that does not return.
HANG_ACTION == "hang"

ConcRegistrations ==
    { <<"Get", <<SLASH, "hang">>, HANG_ACTION>>, <<"Get", <<SLASH>>, "index">> }

\* The workers holding a read guard of the router.
Readers == {c \in DOMAIN pc : pc[c] \in {"Reading", "Stuck"}}

\* RwLock::read: admitted whatever the other readers; nothing takes the
\* write guard once the server is active (edit_router panics first).
RwLockReadMut(readers) == readers = {}

RwLockRead(readers) == TRUE

ConcInit ==
    /\ active = FALSE
    /\ serverPc = "config"
    /\ router = RouterNew(NOT_FOUND_ACTION)
    /\ routes = {}
    /\ lastAdd = NoAdd
    /\ pc = [c \in ConcConns |-> "unaccepted"]
    /\ sock = [c \in ConcConns |-> <<>>]
    /\ peerOpen = [c \in ConcConns |-> TRUE]
    /\ elapsed = [c \in ConcConns |-> 0]
    /\ exch = [c \in ConcConns |-> <<>>]
    /\ exit = [c \in ConcConns |-> "none"]
    /\ NoCodec
    /\ NoDelivery

\* The listener accepts and spawns; the worker takes its read guards and
\* enters its loop.
ConcAccept(c) == RwLockRead(Readers \ {c}) /\ Accept(c)

\* The action the router resolves for the buffer at the head of the socket.
Resolved(c) ==
    LET parsed == Decoded[Head(sock[c])]
    IN  IF parsed.kind = "ok" THEN RouterGet(router, parsed.req.method, parsed.req.route)
        ELSE NOT_FOUND_ACTION

\* action(request) at http_server.rs:83 does not return: the worker stays
\* inside the call, its connection open and its read guards held.
Hang(c) ==
    /\ serverPc = "listening"
    /\ pc[c] = "Reading"
    /\ sock[c] # <<>>
    /\ Resolved(c) = HANG_ACTION
    /\ pc' = [pc EXCEPT ![c] = "Stuck"]
    /\ sock' = [sock EXCEPT ![c] = Tail(@)]
    /\ UNCHANGED server
    /\ UNCHANGED <<peerOpen, elapsed, exch, exit>>
    /\ UNCHANGED codec
    /\ UNCHANGED delivery

\* A turn of the loop whose handler returns.
ConcServe(c) ==
    /\ pc[c] = "Reading"
    /\ sock[c] # <<>>
    /\ Resolved(c) # HANG_ACTION
    /\ Serve(c, TRUE)

ConcNext ==
    \/ \E reg \in ConcRegistrations : Route(reg[1], reg[2], reg[3])
    \/ Listen
    \/ \E c \in ConcConns : ConcAccept(c)
    \/ \E c \in ConcConns, name \in ConcBufferNames : ClientSend(c, name)
    \/ \E c \in ConcConns : Hang(c)
    \/ \E c \in ConcConns : ConcServe(c)

ConcSpec == ConcInit /\ [][ConcNext]_vars

\* C12: while the worker of one connection is inside a handler that never
\* returns, the listener can still accept every connection not yet accepted,
\* every other worker with a request to serve can serve it, and each
\* exchange another worker completes meanwhile is the written response of
\* the action the shared router resolves for its request.
C12_StuckHandlerBlocksOnlyItsWorker ==
    \A c \in DOMAIN pc : \A d \in (DOMAIN pc) \ {c} :
        serverPc = "listening" /\ pc[c] = "Stuck" =>
            /\ pc[d] = "unaccepted" => ENABLED ConcAccept(d)
            /\ pc[d] = "Reading" /\ sock[d] # <<>> => ENABLED (Hang(d) \/ ConcServe(d))
            /\ \A i \in 1..Len(exch[d]) :
                   c \in exch[d][i].stuck =>
                       /\ exch[d][i].written
                       /\ exch[d][i].res =
                              Some(Respond(router, Decoded[exch[d][i].data].req))

\* One worker is stuck, the other was accepted after that and has completed
\* an exchange since.
C12_Witness ==
    /\ pc["c1"] = "Stuck"
    /\ pc["c2"] = "Reading"
    /\ Len(exch["c2"]) > 0
    /\ exch["c2"][1].stuck = {"c1"}
    /\ exch["c2"][1].written

(***************************************************************************)
(* The default error policy.                                               *)
(***************************************************************************)
\* The handler resolved for the decoded buffer reports a RequestParseError
\* (req.text()? or req.json()? fails on the body).
HandlerReportsParseFailure(name) ==
    /\ Decoded[name].kind = "ok"
    /\ LET req == Decoded[name].req
           action == RouterGet(router, req.method, req.route)
       IN  \/ action = "echo" /\ ~RequestText(req).ok
           \/ action = "post_json" /\ ~RequestJson(req).ok

\* C13: under the default error policy a parse failure reported by a handler
\* is answered with status 500 and the body "Malformed request".
C13_HandlerParseFailureIsMalformedRequest ==
    \A e \in Exchanges :
        HandlerReportsParseFailure(ExchangeAt(e).data) =>
            /\ ExchangeAt(e).res # None
            /\ ExchangeAt(e).res[1].status = 500
            /\ ExchangeAt(e).res[1].body = <<"Malformed request">>

(***************************************************************************)
(* The server with the file-serving handlers registered.                   *)
(***************************************************************************)
FileBufferNames == {"gethello", "getpage", "get11"}

FileRegistrations ==
    { <<"Get", <<SLASH, "hello">>, "hello">>,
      <<"Get", <<SLASH, "hel">>, "hel">>,
      <<"Get", <<SLASH, "page">>, "page">> }

FileNext ==
    \/ \E reg \in FileRegistrations : Route(reg[1], reg[2], reg[3])
    \/ Listen
    \/ ListenFail
    \/ AcceptFail
    \/ \E c \in Conns : Accept(c)
    \/ \E c \in Conns : AcceptNoPeer(c)
    \/ \E c \in Conns, name \in FileBufferNames : ClientSend(c, name)
    \/ \E c \in Conns : ClientClose(c)
    \/ Tick
    \/ \E c \in Conns, wrote \in BOOLEAN : Serve(c, wrote)
    \/ \E c \in Conns : IdleTimeout(c)

FileSpec == Init /\ [][FileNext]_vars

\* The handler resolved for the decoded buffer gives Response::file the
\* name of a file that does not exist.
HandlerOpensMissingFile(name) ==
    /\ Decoded[name].kind = "ok"
    /\ LET action == RouterGet(router, Decoded[name].req.method, Decoded[name].req.route)
       IN  action \in FileActions /\ HandlerFile(action) \notin DOMAIN FileSystem

\* C14: a handler that gives a non-existent file path to Response::file
\* fails with the not-found error, which the default translator turns into
\* the 404 response with the body "Not found"; the exchange always has that
\* response and the worker goes on after it (back to Reading, or Closing),
\* the write to a peer that is already gone being its only other end.
C14_MissingFileIsAnswered404 ==
    \A e \in Exchanges :
        HandlerOpensMissingFile(ExchangeAt(e).data) =>
            /\ ExchangeAt(e).kind = "ok"
            /\ ExchangeAt(e).res # None
            /\ ExchangeAt(e).res[1].status = 404
            /\ ExchangeAt(e).res[1].body = <<"Not found">>
            /\ ExchangeAt(e).res[1].headers["Content-Length"] = "9"
            /\ ExchangeAt(e).written => ExchangeAt(e).then = "Reading"
            /\ ~ExchangeAt(e).written => ~peerOpen[e[1]] /\ exit[e[1]] = "write_failure"

\* C14 occurs: GET /hello was routed to the handler of main.rs, answered
\* with the written 404, and the worker served a page after it.
C14_Witness ==
    \E c \in DOMAIN exch :
        /\ Len(exch[c]) = 2
        /\ HandlerOpensMissingFile(exch[c][1].data)
        /\ exch[c][1].written
        /\ exch[c][1].res[1].status = 404
        /\ exch[c][2].res[1].status = 200
        /\ exch[c][2].res[1].body = <<"<p>", "o", "k">>

(***************************************************************************)
(* The Response on its own: built by one of the constructors, given        *)
(* further headers, filled from a request, and encoded.                    *)
(***************************************************************************)
Statuses == {200, 404}

Texts == {<<>>, <<"h", "i">>, <<"a", CRLF, CRLF, "b">>, <<"Not found">>}

FileNames == DOMAIN FileSystem \cup {<<"hellsdfo", ".", "html">>}

HeaderNames == {"X-Id", "Content-Type"}

HeaderValues == {"7"}

\* A constructor returned `res`: set_body inserted Content-Length, then
\* Content-Type.
Built(res) ==
    /\ resp = None
    /\ resp' = Some(res)
    /\ inserted' = <<"Content-Length", "Content-Type">>
    /\ UNCHANGED <<wire, buffer, outcome>>
    /\ UNCHANGED <<server, conns>>
    /\ UNCHANGED delivery

\* Response::text
NewText(text, status) == Built(ResponseText(text, status))

\* Response::file, when it returns Ok.
NewFile(filename, status) ==
    /\ ResponseFile(filename, status).ok
    /\ Built(ResponseFile(filename, status).res)

\* Response::json, when it returns Ok.
NewJson(json, status) ==
    /\ ResponseJson(json, status).ok
    /\ Built(ResponseJson(json, status).res)

\* Response::header
SetHeader(header, value) ==
    /\ resp # None
    /\ wire = None
    /\ header \in DOMAIN resp[1].headers \/ Len(inserted) < MaxHeaders
    /\ resp' = Some(ResponseHeader(resp[1], header, value))
    /\ inserted' = IF header \in DOMAIN resp[1].headers THEN inserted
                   ELSE Append(inserted, header)
    /\ UNCHANGED <<wire, buffer, outcome>>
    /\ UNCHANGED <<server, conns>>
    /\ UNCHANGED delivery

\* Response::fill_from
Fill(version) ==
    /\ resp # None
    /\ wire = None
    /\ resp[1].protocol = <<>>
    /\ resp' = Some(FillFrom(resp[1], [version |-> version, protocol |-> <<"http">>]))
    /\ UNCHANGED <<inserted, wire, buffer, outcome>>
    /\ UNCHANGED <<server, conns>>
    /\ UNCHANGED delivery

\* Response::to_bytes, the header map yielding its entries in any order.
Encode ==
    /\ resp # None
    /\ wire = None
    /\ \E order \in IterationOrders(DOMAIN resp[1].headers) :
           wire' = Some(ToBytes(resp[1], order))
    /\ UNCHANGED <<resp, inserted, buffer, outcome>>
    /\ UNCHANGED <<server, conns>>
    /\ UNCHANGED delivery

ResponseNext ==
    \/ \E text \in Texts, status \in Statuses : NewText(text, status)
    \/ \E filename \in FileNames, status \in Statuses : NewFile(filename, status)
    \/ \E json \in JsonValues, status \in Statuses : NewJson(json, status)
    \/ \E header \in HeaderNames, value \in HeaderValues : SetHeader(header, value)
    \/ \E version \in {10, 11} : Fill(version)
    \/ Encode

ResponseSpec == Init /\ [][ResponseNext]_vars

\* The layout of an encoded response with its header lines in `order`.
Layout(res, order) ==
    ToAsciiUppercase(res.protocol)
    \o <<SLASH, F32ToString(res.version), SP, ToString(res.status), CRLF>>
    \o HeaderLines(res.headers, order, 1)
    \o <<CRLF>>
    \o (IF res.body = <<>> THEN <<>> ELSE res.body \o <<CRLF, CRLF>>)

\* C15 as stated: the encoding is the status line, one header line per
\* header in the order the headers were inserted, a blank line, and the body
\* followed by CRLF CRLF when it is not empty.
C15_EncodingInInsertionOrder ==
    wire # None => wire[1] = Layout(resp[1], inserted)

\* C15, amended: the encoding is the status line, one header line per header
\* in some order (the order in which the header map yields its entries,
\* which need not be the order of insertion), a blank line, and the body
\* followed by CRLF CRLF when it is not empty, nothing when it is empty.
C15_EncodingInMappingOrder ==
    wire # None =>
        /\ Len(inserted) = Cardinality(DOMAIN resp[1].headers)
        /\ \E order \in IterationOrders(DOMAIN resp[1].headers) : wire[1] = Layout(resp[1], order)

\* C15 occurs: a response with three headers and a body was encoded with
\* its header lines in another order than they were inserted.
C15_Witness ==
    /\ wire # None
    /\ Len(inserted) = 3
    /\ resp[1].body # <<>>
    /\ wire[1] # Layout(resp[1], inserted)
    /\ wire[1][Len(wire[1])] = CRLF

\* What a client reading the framing of `w` gets: the status of the status
\* line, the header lines up to the blank line, and as body the
\* Content-Length bytes after the blank line.
DecodeFraming(w) ==
    LET lines == Split(HeadOf(w), CRLF)
        statusLine == Split(lines[1], SP)
        statusText == statusLine[Len(statusLine)]
        lengthLines == {i \in 2..Len(lines) : lines[i][1] = "Content-Length"}
        lengthText == Split(lines[CHOOSE i \in lengthLines : TRUE], COLON)[2]
        length == CHOOSE n \in 0..MaxNum : <<ToString(n)>> = lengthText
    IN  [status |-> CHOOSE s \in Statuses : <<ToString(s)>> = statusText,
         names |-> {lines[i][1] : i \in 2..Len(lines)},
         length |-> length,
         body |-> TakeBytes(AfterHead(w), length)]

\* C16: every response built by Response::text, Response::file or
\* Response::json carries a Content-Length equal to the byte length of its
\* body and a Content-Type, and decoding the framing of its encoding (status
\* line, headers, then Content-Length bytes after the blank line) gives back
\* its status and its body.
C16_FramingRoundTrip ==
    /\ resp # None =>
           /\ "Content-Type" \in DOMAIN resp[1].headers
           /\ "Content-Length" \in DOMAIN resp[1].headers
           /\ resp[1].headers["Content-Length"] = ToString(BytesLen(resp[1].body))
    /\ wire # None =>
           /\ DecodeFraming(wire[1]).status = resp[1].status
           /\ DecodeFraming(wire[1]).length = BytesLen(resp[1].body)
           /\ DecodeFraming(wire[1]).body = resp[1].body
           /\ DecodeFraming(wire[1]).names = DOMAIN resp[1].headers

\* C16 occurs: a file response whose body is not text was encoded and its
\* framing decodes to that body.
C16_Witness ==
    /\ wire # None
    /\ resp[1].headers["Content-Type"] = "image/png"
    /\ resp[1].status = 404
    /\ DecodeFraming(wire[1]).body = <<BADBYTE, "g">>

(***************************************************************************)
(* Request::from_bytes on its own: a buffer is put together from a request *)
(* line, header lines and what follows them, and decoded.                  *)
(***************************************************************************)
MethodTokens == {"GET", "POST", "PUT", "PATCH", "DELETE", "BREW"}

RequestLines ==
    {<<m, SP, SLASH, "a", SP, "HTTP", SLASH, "1.1">> : m \in MethodTokens}
    \cup { <<>>,
           <<"GET">>,
           <<"GET", SP, SLASH>>,
           <<"GET", SP, SLASH, SP, "HTTP">>,
           <<"GET", SP, SLASH, SP, "HTTP", SLASH, "x">>,
           <<"GET", SP, SLASH, SP, SLASH, "1.1">>,
           <<"GET", SP, SLASH, SP, "HTTP", SLASH, "1.0">> }

HeaderLineSet ==
    { <<"Host", COLON, "x">>,
      <<"HOST", COLON, "y">>,
      <<"Content-Length", COLON, "2">>,
      <<"Content-Length", COLON, "x">>,
      <<"X", COLON, "a", COLON, "b">>,
      <<"X", COLON, "c">>,
      <<"Broken">> }

HeaderBlocks == UNION {[1..n -> HeaderLineSet] : n \in 0..MaxHeaderLines}

\* What follows the header lines: nothing (no delimiter in the buffer), or
\* the delimiter and the bytes after it.
Tails == {<<>>, <<CRLF, CRLF>>, <<CRLF, CRLF, "h", "i", "!">>}

RECURSIVE JoinLines(_)
JoinLines(block) ==
    IF block = <<>> THEN <<>> ELSE <<CRLF>> \o Head(block) \o JoinLines(Tail(block))

\* The client's bytes arrive in the worker's buffer (http_server.rs:68-74).
Receive(line, block, tail) ==
    /\ buffer = <<>>
    /\ outcome = None
    /\ buffer' = line \o JoinLines(block) \o tail
    /\ buffer' # <<>>
    /\ UNCHANGED <<resp, inserted, wire, outcome>>
    /\ UNCHANGED <<server, conns>>
    /\ UNCHANGED delivery

\* Request::from_bytes(peer_addr, &data)
Decode ==
    /\ buffer # <<>>
    /\ outcome = None
    /\ outcome' = Some(FromBytes(buffer))
    /\ UNCHANGED <<resp, inserted, wire, buffer>>
    /\ UNCHANGED <<server, conns>>
    /\ UNCHANGED delivery

RequestNext ==
    \/ \E line \in RequestLines, block \in HeaderBlocks, tail \in Tails :
           Receive(line, block, tail)
    \/ Decode

RequestSpec == Init /\ [][RequestNext]_vars

(***************************************************************************)
(* Properties of Request::from_bytes.                                      *)
(***************************************************************************)
\* from_bytes returned Ok.
Returned == outcome # None /\ outcome[1].kind = "ok"

HasContentLength == <<"content-length">> \in DOMAIN outcome[1].req.headers

ContentLength == ParseUsize(outcome[1].req.headers[<<"content-length">>])

\* C17 as stated: the body length of a returned Request equals the parsed
\* Content-Length when the header is present, and is zero when the header is
\* absent or when the buffer has no header/body delimiter.
C17_BodyLengthIsContentLength ==
    Returned =>
        /\ HasContentLength =>
               ContentLength.ok /\ BytesLen(outcome[1].req.body) = ContentLength.val
        /\ ~HasContentLength \/ DelimiterAt(buffer) = 0 =>
               BytesLen(outcome[1].req.body) = 0

\* C17, amended: the body length of a returned Request equals the parsed
\* Content-Length when the header is present and the buffer has the
\* header/body delimiter, and is zero otherwise (the header absent, or no
\* delimiter, in which case the header's value is not even parsed).
C17_BodyLengthIsContentLengthAfterDelimiter ==
    Returned =>
        IF HasContentLength /\ DelimiterAt(buffer) # 0
        THEN /\ ContentLength.ok
             /\ BytesLen(outcome[1].req.body) = ContentLength.val
             /\ outcome[1].req.body = TakeBytes(AfterHead(buffer), ContentLength.val)
        ELSE outcome[1].req.body = <<>>

\* C17 occurs: a buffer with Content-Length 2 and three bytes after the
\* delimiter was decoded into a Request with a body of two bytes.
C17_Witness ==
    /\ Returned
    /\ HasContentLength
    /\ AfterHead(buffer) = <<"h", "i", "!">>
    /\ outcome[1].req.body = <<"h", "i">>

\* The parts of the buffer the classification is about: the tokens of the
\* request line and the header lines.
LinesOf(b) == Split(HeadOf(b), CRLF)

TokensOf(b) == Split(LinesOf(b)[1], SP)

HeaderLinesOf(b) == SubSeq(LinesOf(b), 2, Len(LinesOf(b)))

MethodOfToken ==
    ("GET" :> "Get") @@ ("POST" :> "Post") @@ ("PUT" :> "Put") @@ ("PATCH" :> "Patch")
    @@ ("DELETE" :> "Delete")

\* The scheme/version token is missing, or its scheme or its version is
\* missing or does not parse.
BadSchemeVersion(tokens) ==
    \/ Len(tokens) < 3
    \/ LET sv == Split(tokens[3], SLASH)
       IN  sv[1] = <<>> \/ Len(sv) < 2 \/ ~ParseF32(sv[2]).ok

\* The index of the first header line without the separator, 0 if none.
FirstBrokenLine(lines) ==
    LET broken == {i \in 1..Len(lines) : \A k \in 1..Len(lines[i]) : lines[i][k] # COLON}
    IN  IF broken = {} THEN 0 ELSE CHOOSE i \in broken : \A j \in broken : i <= j

\* C18: decoding fails with the error of the first failing part of the
\* request: Method for a missing method token or one outside GET, POST, PUT,
\* PATCH, DELETE; Route for a missing path; Protocol for a missing or
\* unparsable scheme/version; Header(name) for a header line without the
\* separator; Host for a request without a Host header; and a request that
\* decodes has the method of its token.
C18_FirstFailingPartClassified ==
    outcome # None =>
        LET tokens == TokensOf(buffer)
            lines == HeaderLinesOf(buffer)
        IN  IF tokens[1] = <<>> \/ tokens[1][1] \notin DOMAIN MethodOfToken
            THEN outcome[1] = ParseErr(<<"Method">>)
            ELSE IF Len(tokens) < 2 THEN outcome[1] = ParseErr(<<"Route">>)
            ELSE IF BadSchemeVersion(tokens) THEN outcome[1] = ParseErr(<<"Protocol">>)
            ELSE IF FirstBrokenLine(lines) # 0
            THEN /\ outcome[1].kind = "err"
                 /\ outcome[1].err[1] = "Header"
                 /\ outcome[1].err[2] = ToAsciiLowercase(lines[FirstBrokenLine(lines)])
            ELSE IF \A i \in 1..Len(lines) : ToAsciiLowercase(<<lines[i][1]>>) # <<"host">>
            THEN outcome[1] = ParseErr(<<"Host">>)
            ELSE outcome[1].kind = "ok" => outcome[1].req.method = MethodOfToken[tokens[1][1]]

\* The header lines of the buffer whose name, lower-cased, is `name`.
LinesNamed(lines, name) == {i \in 1..Len(lines) : ToAsciiLowercase(<<lines[i][1]>>) = name}

\* The whole remainder of a header line after its first separator.
Remainder(line) == SubSeq(line, 3, Len(line))

\* C19: in a returned Request every header line of the buffer is stored
\* under its lower-cased name, with as value the whole remainder of the line
\* after the first `: ` (later `: ` included), the last line of a name
\* giving the value stored for it.
C19_HeaderValueIsRemainder ==
    Returned =>
        LET lines == HeaderLinesOf(buffer)
            stored == outcome[1].req.headers
        IN  /\ DOMAIN stored = {ToAsciiLowercase(<<lines[i][1]>>) : i \in 1..Len(lines)}
            /\ \A name \in DOMAIN stored :
                   LET last == CHOOSE i \in LinesNamed(lines, name) :
                                   \A j \in LinesNamed(lines, name) : j <= i
                   IN  stored[name] = Remainder(lines[last])

(***************************************************************************)
(* The frame of a registration.                                            *)
(***************************************************************************)
\* C20: Router::add(m, p, h) changes the result of Router::get only for
\* method m and the lookup paths with the segment sequence of p: for every
\* other method, and for every path of m with another segment sequence,
\* get returns after the call what it returned before.
C20_RegistrationFrame ==
    [][lastAdd'.n = lastAdd.n + 1 =>
          \A m \in HttpMethod, q \in LookupPaths :
              m # lastAdd'.method \/ Segments(q) # Segments(lastAdd'.route) =>
                  RouterGet(router', m, q) = RouterGet(router, m, q)]_vars

(***************************************************************************)
(* One kept-alive connection byte by byte: the client sends complete       *)
(* requests, the socket hands the worker what has arrived at each read,    *)
(* and the socket takes what it takes of each write.                       *)
(***************************************************************************)
StreamConn == "c1"

\* Complete well-formed HTTP/1.1 requests without `Connection: close`; the
\* third is BUFFER_SIZE bytes long.
StreamRequests == {"get11", "echo", "getpad"}

StreamRegistrations == { <<"Post", <<SLASH, "echo">>, "echo">>, <<"Get", <<SLASH>>, "index">> }

\* The client writes one request on the connection.
SendRequest(name) ==
    /\ serverPc = "listening"
    /\ pc[StreamConn] = "Reading"
    /\ Len(sent) < MaxSends
    /\ stream' = stream \o Bytes(name)
    /\ sent' = Append(sent, name)
    /\ UNCHANGED <<data, answers>>
    /\ UNCHANGED <<server, conns, codec>>

\* client.read fills the whole buffer (size = BUFFER_SIZE): the inner loop
\* goes on to the next read, which waits for more bytes.
ReadFull ==
    /\ serverPc = "listening"
    /\ pc[StreamConn] = "Reading"
    /\ BytesLen(TakeBytes(stream, BUFFER_SIZE)) = BUFFER_SIZE
    /\ data' = data \o TakeBytes(stream, BUFFER_SIZE)
    /\ stream' = SubSeq(stream, Len(TakeBytes(stream, BUFFER_SIZE)) + 1, Len(stream))
    /\ UNCHANGED <<sent, answers>>
    /\ UNCHANGED <<server, conns, codec>>

\* client.read returns the k lexemes that have arrived, fewer than
\* BUFFER_SIZE bytes: the inner loop ends and the turn runs on `data`
\* (http_server.rs:76-98). client.write hands `accepted` of the encoded
\* bytes to the socket, any number of them, and its count is dropped; the
\* answer records whether that was all of them.
Turn(k) ==
    /\ serverPc = "listening"
    /\ pc[StreamConn] = "Reading"
    /\ k \in 1..Len(stream)
    /\ BytesLen(SubSeq(stream, 1, k)) < BUFFER_SIZE
    /\ stream' = SubSeq(stream, k + 1, Len(stream))
    /\ data' = <<>>
    /\ LET parsed == FromBytes(data \o SubSeq(stream, 1, k))
       IN  IF parsed.kind # "ok"
           THEN /\ pc' = [pc EXCEPT ![StreamConn] = "Panicked"]
                /\ exit' = [exit EXCEPT ![StreamConn] = "decode_panic"]
                /\ UNCHANGED <<elapsed, answers>>
           ELSE LET response == Respond(router, parsed.req)
                IN  /\ \E order \in IterationOrders(DOMAIN response.headers) :
                        \E accepted \in 0..Len(ToBytes(response, order)) :
                            answers' = Append(answers,
                                              [res |-> response,
                                               complete |->
                                                   accepted = Len(ToBytes(response, order))])
                    /\ IF ShouldClose(parsed.req)
                       THEN /\ pc' = [pc EXCEPT ![StreamConn] = "Closing"]
                            /\ exit' = [exit EXCEPT ![StreamConn] = "keep_alive"]
                            /\ UNCHANGED elapsed
                       ELSE /\ elapsed' = [elapsed EXCEPT ![StreamConn] = 0]
                            /\ UNCHANGED <<pc, exit>>
    /\ UNCHANGED sent
    /\ UNCHANGED <<sock, peerOpen, exch>>
    /\ UNCHANGED <<server, codec>>

StreamNext ==
    \/ \E reg \in StreamRegistrations : Route(reg[1], reg[2], reg[3])
    \/ Listen
    \/ Accept(StreamConn)
    \/ \E name \in StreamRequests : SendRequest(name)
    \/ ReadFull
    \/ \E k \in 1..Len(stream) : Turn(k)

StreamSpec == Init /\ [][StreamNext]_vars

\* The response the server owes to the request named `name`.
Owed(name) == Respond(router, Decoded[name].req)

\* C21: on a kept-alive connection every complete well-formed request the
\* client sent is answered with exactly one response, in the order sent,
\* however the socket delivered its bytes: once the worker has read all
\* that was sent, or has left its loop, there is one written response per
\* request sent, the i-th being the response to the i-th request.
C21_OneResponsePerRequestInOrder ==
    /\ serverPc = "listening"
    /\ pc[StreamConn] # "unaccepted"
    /\ stream = <<>> \/ pc[StreamConn] # "Reading"
    =>
        /\ Len(answers) = Len(sent)
        /\ \A i \in 1..Len(sent) : answers[i].res = Owed(sent[i])

\* C23: the worker goes on to the keep-alive decision, and from there to
\* the next read or to Closing, only after all encoded bytes of the response
\* were handed to the socket: no answer of a worker that went on is left
\* with part of its bytes unwritten.
C23_WritingIsComplete ==
    \A i \in 1..Len(answers) : answers[i].complete

(***************************************************************************)
(* Several connections, some of whose workers panic while they hold their  *)
(* read guards of the router and of the error handler.                     *)
(***************************************************************************)
IsoBufferNames == {"get11", "badmethod"}

IsoRegistrations == { <<"Get", <<SLASH>>, "index">> }

\* The workers that panicked.
Panicked == {c \in DOMAIN pc : pc[c] = "Panicked"}

\* Is the RwLock poisoned? Only a panic while the write guard is held
\* poisons it; the workers hold read guards.
PoisonedMut(panicked) == panicked # {}

Poisoned(panicked) == FALSE

\* The listener accepts and spawns; router.read().unwrap() and
\* error_handler.read().unwrap() (http_server.rs:62-63) panic the new worker
\* on a poisoned lock, otherwise it enters its loop.
IsoAccept(c) ==
    IF Poisoned(Panicked)
    THEN /\ serverPc = "listening"
         /\ pc[c] = "unaccepted"
         /\ pc' = [pc EXCEPT ![c] = "Panicked"]
         /\ exit' = [exit EXCEPT ![c] = "poisoned_lock"]
         /\ UNCHANGED <<sock, peerOpen, elapsed, exch>>
         /\ UNCHANGED <<server, codec, delivery>>
    ELSE Accept(c)

IsoNext ==
    \/ \E reg \in IsoRegistrations : Route(reg[1], reg[2], reg[3])
    \/ Listen
    \/ \E c \in ConcConns : IsoAccept(c)
    \/ \E c \in ConcConns, name \in IsoBufferNames : ClientSend(c, name)
    \/ \E c \in ConcConns : ClientClose(c)
    \/ \E c \in ConcConns, wrote \in BOOLEAN : Serve(c, wrote)

IsoSpec == ConcInit /\ [][IsoNext]_vars

\* While some worker has panicked: every connection not yet accepted can be
\* accepted, every other worker with a request to serve can serve it, no
\* worker has failed to acquire the shared state, and the exchanges made
\* after the panic are the responses of the shared router.
IsolatedState ==
    \A c \in DOMAIN pc : \A d \in (DOMAIN pc) \ {c} :
        serverPc = "listening" /\ pc[c] = "Panicked" =>
            /\ exit[d] # "poisoned_lock"
            /\ pc[d] = "unaccepted" => ENABLED IsoAccept(d)
            /\ pc[d] = "Reading" /\ sock[d] # <<>> => ENABLED Serve(d, TRUE)
            /\ \A i \in 1..Len(exch[d]) :
                   c \in exch[d][i].panicked /\ exch[d][i].written =>
                       exch[d][i].res = Some(Respond(router, Decoded[exch[d][i].data].req))

\* The step in which a worker panics leaves the server, its router and the
\* other connections as they were.
IsolatedStep ==
    \A c \in DOMAIN pc :
        pc[c] # "Panicked" /\ pc'[c] = "Panicked" =>
            /\ UNCHANGED server
            /\ \A d \in (DOMAIN pc) \ {c} :
                   /\ pc'[d] = pc[d]
                   /\ sock'[d] = sock[d]
                   /\ exch'[d] = exch[d]
                   /\ exit'[d] = exit[d]

\* C22: a panic of one connection's worker (on a decode failure or a write
\* failure, while it holds its read guards) does not end the accept loop,
\* does not change the shared router, and does not keep the other workers,
\* present or accepted later, from acquiring the shared state and serving
\* their requests.
C22_WorkerPanicIsIsolated == [](IsolatedState) /\ [][IsolatedStep]_vars

\* C22 occurs: the worker of c1 panicked, c2 was accepted after that and
\* was served by the router, and the listener is still accepting.
C22_Witness ==
    /\ serverPc = "listening"
    /\ pc["c1"] = "Panicked"
    /\ pc["c2"] = "Reading"
    /\ Len(exch["c2"]) > 0
    /\ exch["c2"][1].panicked = {"c1"}
    /\ exch["c2"][1].written
    /\ exch["c2"][1].res[1].status = 200

====
